---- MODULE Spec2Model ----
(***************************************************************************)
(* Streaming synthesis-and-delivery pipeline of the tts repository.        *)
(*                                                                         *)
(* Each sub-system is modelled with its own specification:                 *)
(*   SpecLocal     TTSApplication.talk / process_chunk / play_audio_worker *)
(*                 (src/src/main.py) with TTSGenerator.generate_tts        *)
(*   SpecLegacy    tts_stream of the stand-alone server                    *)
(*                 (src/tts_endpoint.py)                                   *)
(*   SpecWeb       stream_tts_endpoint / stop_tts_streaming                *)
(*                 (src/src/web_server.py) driving                         *)
(*                 TTSService.stream_tts_web                               *)
(*   SpecFiles     UnifiedFileManager (src/src/file_manager.py)            *)
(*   SpecSessions  the sessions the runs of one process obtain             *)
(*   SpecRun       TTSApplication.run with                                 *)
(*                 TextProcessor.split_text_into_chunks                    *)
(*   SpecTranslate Translator.translate_text (src/src/translator.py)       *)
(*   SpecPlay      AudioPlayer.play_audio (src/src/audio_player.py)        *)
(*   SpecVoice     calls of TTSService.stream_tts_web sharing              *)
(*                 settings.tts_voice (src/src/tts_service.py)             *)
(* While one of them runs, the variables of the others keep the values of  *)
(* their Idle predicate.                                                   *)
(*                                                                         *)
(* asyncio runs coroutines on one thread: the code between two suspending  *)
(* awaits is atomic, so every action below is one such stretch of code.    *)
(* Frames are recorded when they are handed to ConnectionManager.send_json *)
(* for a client whose websocket stays connected during the request.        *)
(***************************************************************************)
EXTENDS Integers, Sequences, FiniteSets, TLC

\* ---------------------------------------------------------------- bounds
MaxChunks == 3        \* chunks of one talk() call
MaxParagraphs == 4    \* paragraphs of one stream request
MaxStops == 2         \* stop requests issued against one client
MaxClock == 1         \* last timestamp value the file manager can observe
MaxTracked == 3       \* longest created_files list
MaxRuns == 3          \* pipeline runs of one process
MaxLen == 4           \* characters of an input text
max_translate_chars == 2 \* settings.max_translate_chars, scaled to MaxLen
MaxLines == 2         \* lines of a sidecar file
MaxTime == 4          \* last elapsed time a poll can read, in ticks
MaxRequests == 2      \* synthesis calls sharing the settings object

\* ------------------------------------------------------ program constants
ConcurrencyLimit == 2 \* asyncio.Semaphore(2) of tts_stream

NoItem == -1          \* the [None, None] sentinel of play_queue

VARIABLES
  \* --- local mode (src/src/main.py)
  nChunks,        \* len(chunks) of the running talk() call
  tts_voice_set,  \* settings.tts_voice is non-empty
  talk_pc,        \* position of talk()
  talk_i,         \* loop variable i of talk()
  talk_error,     \* talk() went through its except branch
  synth,          \* outcome of generate_tts per chunk index
  inflight,       \* chunk indices whose provider call is in flight
  play_queue,     \* asyncio.Queue of talk()
  worker_pc,      \* position of play_audio_worker
  worker_item,    \* the item play_audio_worker is playing
  play_started,   \* chunk indices in the order play_audio was started
  play_returned,  \* chunk indices whose play_audio has returned
  play_failed,    \* chunk indices whose play_audio caught an exception
  cleanup_done,   \* the finally of run() has called cleanup_session_files
  cleanup_pending, \* chunks queued or being played when the cleanup ran
  \* --- stand-alone server (src/tts_endpoint.py)
  lg_n,           \* len(paragraphs) of the tts_stream request
  lg_pc,          \* position of tts_stream
  lg_index,       \* loop variable index
  lg_sem,         \* free slots of semaphore
  lg_inflight,    \* paragraph indices whose provider call is in flight
  lg_result,      \* outcome of generate_tts_chunk per paragraph index
  lg_frames,      \* frames handed to manager.send_json, in order
  lg_successful,  \* successful_count
  lg_failed,      \* failed_count
  \* --- unified web server (src/src/web_server.py, src/src/tts_service.py)
  ws_n,           \* len(paragraphs) of the stream request
  ws_voice_set,   \* request.voice or settings.tts_voice is non-empty
  ws_pc,          \* position of stream_tts_endpoint and its generator
  ws_i,           \* loop variable i of stream_tts_web
  ws_inflight,    \* paragraph indices whose provider call is in flight
  ws_result,      \* outcome of generate_tts per paragraph index
  ws_frames,      \* frames handed to manager.send_json, in order
  ws_successful,  \* successful_count
  ws_failed,      \* failed_count
  ws_http,        \* HTTP status of the stream request (0: still running)
  ws_stop_calls,  \* stop requests received for the client so far
  ws_stop_while_active, \* a stop request arrived while the stream ran
  ws_stop_http,   \* HTTP status of the last stop request (0: none yet)
  \* --- file manager (src/src/file_manager.py)
  fm_clock,         \* value datetime.now() formats into file names
  fm_created_files, \* self.created_files
  fm_files,         \* regular files that exist in the session directory
  fm_dirs,          \* directories of the session that exist
  fm_locked,        \* files whose unlink raises OSError
  fm_prev_op,       \* the file-manager operation before the last one
  fm_last_op,       \* the last file-manager operation
  fm_prev_count,    \* what the cleanup before the last one returned
  fm_last_count,    \* what the last cleanup_session_files returned
  fm_last_raised,   \* the last cleanup_session_files raised
  fm_files_before,  \* the files on disk when the last cleanup_session_files began
  fm_session_mtime, \* st_mtime of the session directory
  fm_orphan,        \* base_temp_dir holds a session_* directory a crashed
                    \* run left behind before this session was created
  \* --- sessions of one process (UnifiedFileManager.__new__ / __init__)
  us_instance,    \* UnifiedFileManager._instance: 0 is None, else its session id
  us_next_id,     \* number of session ids _generate_session_id has produced
  us_runs,        \* per run: its position, its kind and the session it uses
  \* --- one call of TTSApplication.run (src/src/main.py)
  run_mode,          \* which input run() was given
  run_exists,        \* the input file exists
  run_content,       \* the text given, or the content of the input file
  run_target,        \* target_language is set
  run_pc,            \* position of run()
  run_original,      \* original_text
  run_translated,    \* translated_text
  run_chunks,        \* chunks
  run_reconstructed, \* reconstructed_translated_text
  run_spoken,        \* the texts talk() was called with, in order
  run_talk_chunks,   \* chunks of the last talk() call
  run_raised,        \* an exception left run()
  run_cleaned,       \* cleanup_session_files was called
  \* --- one call of Translator.translate_text (src/src/translator.py)
  tr_text,              \* text
  tr_target,            \* target_language is set
  tr_pc,                \* position of translate_text
  tr_chunks,            \* the non-blank chunks the loop iterates over
  tr_idx,               \* position of the loop in tr_chunks, from 1
  tr_calls,             \* the chunks handed to translator.translate, in order
  tr_outcomes,          \* what each of these calls did
  tr_translated_chunks, \* translated_chunks
  tr_result,            \* the value returned
  \* --- one call of AudioPlayer.play_audio (src/src/audio_player.py)
  pl_lines,       \* the lines of the sidecar file, each split into fields
  pl_pc,          \* position of play_audio
  pl_loaded,      \* what load_word_boundaries returned
  pl_load_raised, \* load_word_boundaries raised
  pl_boundaries,  \* word_boundaries, as display_synchronized_text leaves it
  pl_error,       \* play_audio went through its except branch
  pl_elapsed,     \* the last elapsed_time read, -1 before the first
  pl_polls,       \* every elapsed_time read so far
  pl_shown,       \* positions of the boundaries printed, in order
  \* --- the voice setting (src/src/settings.py, src/src/tts_service.py)
  settings_tts_voice, \* settings.tts_voice
  vc_configured,      \* tts_voice as the configuration was loaded
  vc_req,             \* per call: its position, its voice argument, its
                      \* paragraphs, its loop variable, its original_voice
  vc_used             \* the voice of each synthesis call begun, in order

localVars == <<nChunks, tts_voice_set, talk_pc, talk_i, talk_error, synth,
               inflight, play_queue, worker_pc, worker_item, play_started,
               play_returned, play_failed, cleanup_done, cleanup_pending>>

legacyVars == <<lg_n, lg_pc, lg_index, lg_sem, lg_inflight, lg_result,
                lg_frames, lg_successful, lg_failed>>

webVars == <<ws_n, ws_voice_set, ws_pc, ws_i, ws_inflight, ws_result,
             ws_frames, ws_successful, ws_failed, ws_http, ws_stop_calls,
             ws_stop_while_active, ws_stop_http>>

fileVars == <<fm_clock, fm_created_files, fm_files, fm_dirs, fm_locked,
              fm_prev_op, fm_last_op, fm_prev_count, fm_last_count,
              fm_last_raised, fm_files_before, fm_session_mtime, fm_orphan>>

sessVars == <<us_instance, us_next_id, us_runs>>

\* the four sub-systems of the streaming pipeline, and everything else
coreVars == <<localVars, legacyVars, webVars, fileVars>>
runVars == <<run_mode, run_exists, run_content, run_target, run_pc,
             run_original, run_translated, run_chunks, run_reconstructed,
             run_spoken, run_talk_chunks, run_raised, run_cleaned>>
translateVars == <<tr_text, tr_target, tr_pc, tr_chunks, tr_idx, tr_calls,
                   tr_outcomes, tr_translated_chunks, tr_result>>
playVars == <<pl_lines, pl_pc, pl_loaded, pl_load_raised, pl_boundaries,
              pl_error, pl_elapsed, pl_polls, pl_shown>>
voiceVars == <<settings_tts_voice, vc_configured, vc_req, vc_used>>
extVars == <<sessVars, runVars, translateVars, playVars, voiceVars>>

vars == <<localVars, legacyVars, webVars, fileVars, extVars>>

Outcomes == {"none", "ok", "fail", "raise"}

\* ------------------------------------------------------------ local mode

\* asyncio.Queue.put on the unbounded play_queue: FIFO append
Enqueue_lifo(q, x) == <<x>> \o q
Enqueue(q, x) == Append(q, x)

\* a sub-system that no request has reached
LocalIdle ==
  /\ nChunks = 0
  /\ tts_voice_set = TRUE
  /\ talk_pc = "start"
  /\ talk_i = 0
  /\ talk_error = FALSE
  /\ synth = <<>>
  /\ inflight = {}
  /\ play_queue = <<>>
  /\ worker_pc = "notstarted"
  /\ worker_item = NoItem
  /\ play_started = <<>>
  /\ play_returned = {}
  /\ play_failed = {}
  /\ cleanup_done = FALSE
  /\ cleanup_pending = {}

LegacyIdle ==
  /\ lg_n = 1
  /\ lg_pc = "start"
  /\ lg_index = 0
  /\ lg_sem = ConcurrencyLimit
  /\ lg_inflight = {}
  /\ lg_result = <<>>
  /\ lg_frames = <<>>
  /\ lg_successful = 0
  /\ lg_failed = 0

WebIdle ==
  /\ ws_n = 1
  /\ ws_voice_set = TRUE
  /\ ws_pc = "idle"
  /\ ws_i = 0
  /\ ws_inflight = {}
  /\ ws_result = <<>>
  /\ ws_frames = <<>>
  /\ ws_successful = 0
  /\ ws_failed = 0
  /\ ws_http = 0
  /\ ws_stop_calls = 0
  /\ ws_stop_while_active = FALSE
  /\ ws_stop_http = 0

SessionDirs == {"session", "audio", "text", "translation", "cache"}

FilesIdle ==
  /\ fm_clock = 0
  /\ fm_created_files = <<>>
  /\ fm_files = {}
  /\ fm_dirs = SessionDirs
  /\ fm_locked = {}
  /\ fm_prev_op = "none"
  /\ fm_last_op = "none"
  /\ fm_prev_count = 0
  /\ fm_last_count = 0
  /\ fm_last_raised = FALSE
  /\ fm_files_before = {}
  /\ fm_session_mtime = 0
  /\ fm_orphan = FALSE

SessIdle ==
  /\ us_instance = 0
  /\ us_next_id = 0
  /\ us_runs = <<>>

RunIdle ==
  /\ run_mode = "none"
  /\ run_exists = FALSE
  /\ run_content = <<>>
  /\ run_target = FALSE
  /\ run_pc = "idle"
  /\ run_original = <<>>
  /\ run_translated = <<>>
  /\ run_chunks = <<>>
  /\ run_reconstructed = <<>>
  /\ run_spoken = <<>>
  /\ run_talk_chunks = <<>>
  /\ run_raised = FALSE
  /\ run_cleaned = FALSE

TranslateIdle ==
  /\ tr_text = <<>>
  /\ tr_target = FALSE
  /\ tr_pc = "idle"
  /\ tr_chunks = <<>>
  /\ tr_idx = 0
  /\ tr_calls = <<>>
  /\ tr_outcomes = <<>>
  /\ tr_translated_chunks = <<>>
  /\ tr_result = <<>>

PlayIdle ==
  /\ pl_lines = <<>>
  /\ pl_pc = "idle"
  /\ pl_loaded = <<>>
  /\ pl_load_raised = FALSE
  /\ pl_boundaries = <<>>
  /\ pl_error = FALSE
  /\ pl_elapsed = -1
  /\ pl_polls = {}
  /\ pl_shown = <<>>

VoiceIdle ==
  /\ settings_tts_voice = ""
  /\ vc_configured = ""
  /\ vc_req = <<>>
  /\ vc_used = <<>>

ExtIdle == SessIdle /\ RunIdle /\ TranslateIdle /\ PlayIdle /\ VoiceIdle

InitLocal ==
  /\ nChunks \in 0..MaxChunks
  /\ tts_voice_set \in BOOLEAN
  /\ talk_pc = "start"
  /\ talk_i = 0
  /\ talk_error = FALSE
  /\ synth = [k \in 0..(nChunks - 1) |-> "none"]
  /\ inflight = {}
  /\ play_queue = <<>>
  /\ worker_pc = "notstarted"
  /\ worker_item = NoItem
  /\ play_started = <<>>
  /\ play_returned = {}
  /\ play_failed = {}
  /\ cleanup_done = FALSE
  /\ cleanup_pending = {}
  /\ LegacyIdle
  /\ WebIdle
  /\ FilesIdle
  /\ ExtIdle

\* talk(): split the text, create the queue and the worker task
TalkStart ==
  /\ talk_pc = "start"
  /\ talk_pc' = "loop"
  /\ worker_pc' = "get"
  /\ UNCHANGED <<legacyVars, webVars, fileVars, extVars,
                 play_failed, cleanup_done, cleanup_pending,
                 nChunks, tts_voice_set, talk_i, talk_error, synth, inflight,
                 play_queue, worker_item, play_started, play_returned>>

\* process_chunk(): await generate_tts for chunk i
ProcessChunk ==
  /\ talk_pc = "loop"
  /\ talk_i < nChunks
  /\ talk_pc' = "generate"
  /\ inflight' = inflight \cup {talk_i}
  /\ UNCHANGED <<legacyVars, webVars, fileVars, extVars,
                 play_failed, cleanup_done, cleanup_pending,
                 nChunks, tts_voice_set, talk_i, talk_error, synth,
                 play_queue, worker_pc, worker_item, play_started,
                 play_returned>>

\* generate_tts returned (audio_file, text_file): the chunk is queued
GenerateTtsOk ==
  /\ talk_pc = "generate"
  /\ synth' = [synth EXCEPT ![talk_i] = "ok"]
  /\ inflight' = inflight \ {talk_i}
  /\ play_queue' = Enqueue(play_queue, talk_i)
  /\ talk_i' = talk_i + 1
  /\ talk_pc' = "loop"
  /\ UNCHANGED <<legacyVars, webVars, fileVars, extVars,
                 play_failed, cleanup_done, cleanup_pending,
                 nChunks, tts_voice_set, talk_error, worker_pc, worker_item,
                 play_started, play_returned>>

\* generate_tts caught a provider error and returned (None, None):
\* process_chunk queues nothing
GenerateTtsFail ==
  /\ talk_pc = "generate"
  /\ synth' = [synth EXCEPT ![talk_i] = "fail"]
  /\ inflight' = inflight \ {talk_i}
  /\ talk_i' = talk_i + 1
  /\ talk_pc' = "loop"
  /\ UNCHANGED <<legacyVars, webVars, fileVars, extVars,
                 play_failed, cleanup_done, cleanup_pending,
                 nChunks, tts_voice_set, talk_error, play_queue, worker_pc,
                 worker_item, play_started, play_returned>>

\* get_voice raised (it is awaited before the try of generate_tts, and it
\* reaches the provider only when settings.tts_voice is empty): the
\* exception leaves process_chunk and the for loop, talk() logs it and
\* returns without queueing the sentinel or awaiting the worker
GenerateTtsRaise ==
  /\ talk_pc = "generate"
  /\ ~tts_voice_set
  /\ synth' = [synth EXCEPT ![talk_i] = "raise"]
  /\ inflight' = inflight \ {talk_i}
  /\ talk_error' = TRUE
  /\ talk_pc' = "done"
  /\ UNCHANGED <<legacyVars, webVars, fileVars, extVars,
                 play_failed, cleanup_done, cleanup_pending,
                 nChunks, tts_voice_set, talk_i, play_queue, worker_pc,
                 worker_item, play_started, play_returned>>

\* after the loop: queue [None, None] and await play_task
TalkPutSentinel ==
  /\ talk_pc = "loop"
  /\ talk_i = nChunks
  /\ play_queue' = Enqueue(play_queue, NoItem)
  /\ talk_pc' = "await_play"
  /\ UNCHANGED <<legacyVars, webVars, fileVars, extVars,
                 play_failed, cleanup_done, cleanup_pending,
                 nChunks, tts_voice_set, talk_i, talk_error, synth, inflight,
                 worker_pc, worker_item, play_started, play_returned>>

\* await play_task completes once the worker has left its loop
TalkJoin ==
  /\ talk_pc = "await_play"
  /\ worker_pc = "stopped"
  /\ talk_pc' = "done"
  /\ UNCHANGED <<legacyVars, webVars, fileVars, extVars,
                 play_failed, cleanup_done, cleanup_pending,
                 nChunks, tts_voice_set, talk_i, talk_error, synth, inflight,
                 play_queue, worker_pc, worker_item, play_started,
                 play_returned>>

\* play_audio_worker is at the head of its while loop: it awaits the future
\* of run_in_executor, so it is back there only once play_audio has returned
WorkerReady_eager == worker_pc \in {"get", "playing"}
WorkerReady == worker_pc = "get"

\* play_audio_worker: item = await play_queue.get(); break on the sentinel,
\* otherwise start play_audio in the executor
WorkerGet ==
  /\ WorkerReady
  /\ play_queue # <<>>
  /\ play_queue' = Tail(play_queue)
  /\ IF Head(play_queue) = NoItem
       THEN /\ worker_pc' = "stopped"
            /\ UNCHANGED <<worker_item, play_started>>
       ELSE /\ worker_pc' = "playing"
            /\ worker_item' = Head(play_queue)
            /\ play_started' = Append(play_started, Head(play_queue))
  /\ UNCHANGED <<legacyVars, webVars, fileVars, extVars,
                 play_failed, cleanup_done, cleanup_pending,
                 nChunks, tts_voice_set, talk_pc, talk_i, talk_error, synth,
                 inflight, play_returned>>

\* where play_audio_worker goes on after play_audio returned: task_done()
\* and back to the head of its while loop, whatever play_audio did
AfterPlay_die(failed) == IF failed THEN "stopped" ELSE "get"
AfterPlay(failed) == "get"

\* play_audio returned; failed: it went through its except branch (the
\* whole body of play_audio is inside try / except Exception, so a sidecar
\* that cannot be read or parsed and audio that cannot be decoded are
\* logged and play_audio returns None like a playback that went well)
WorkerPlayReturn(failed) ==
  /\ worker_pc = "playing"
  /\ play_returned' = play_returned \cup {worker_item}
  /\ play_failed' = IF failed THEN play_failed \cup {worker_item}
                    ELSE play_failed
  /\ worker_item' = NoItem
  /\ worker_pc' = AfterPlay(failed)
  /\ UNCHANGED <<legacyVars, webVars, fileVars, extVars,
                 cleanup_done, cleanup_pending,
                 nChunks, tts_voice_set, talk_pc, talk_i, talk_error, synth,
                 inflight, play_queue, play_started>>

\* the units of a queue, the sentinel left out
RECURSIVE QueuedUnits(_)
QueuedUnits(q) ==
  IF q = <<>> THEN {}
  ELSE (IF Head(q) = NoItem THEN {} ELSE {Head(q)}) \cup QueuedUnits(Tail(q))

\* the units play_audio_worker has not finished with: those still in
\* play_queue and the one play_audio is busy with in the executor thread
PendingUnits ==
  QueuedUnits(play_queue) \cup
    (IF worker_pc = "playing" THEN {worker_item} ELSE {})

\* run(): talk() has returned, the finally block calls
\* cleanup_session_files (output_file was set before talk() was called)
RunCleanup ==
  /\ talk_pc = "done"
  /\ ~cleanup_done
  /\ cleanup_done' = TRUE
  /\ cleanup_pending' = PendingUnits
  /\ UNCHANGED <<legacyVars, webVars, fileVars, extVars, play_failed,
                 nChunks, tts_voice_set, talk_pc, talk_i, talk_error, synth,
                 inflight, play_queue, worker_pc, worker_item, play_started,
                 play_returned>>

NextLocal ==
  \/ TalkStart
  \/ ProcessChunk
  \/ GenerateTtsOk
  \/ GenerateTtsFail
  \/ GenerateTtsRaise
  \/ TalkPutSentinel
  \/ TalkJoin
  \/ WorkerGet
  \/ \E failed \in BOOLEAN : WorkerPlayReturn(failed)
  \/ RunCleanup

SpecLocal == InitLocal /\ [][NextLocal]_vars

\* ------------------------------------------- stand-alone server: tts_stream

\* a frame handed to manager.send_json; unit is the paragraph index an
\* audio_url frame references through its file name, -1 for the other frames
Frame(type, unit) == [type |-> type, unit |-> unit]

\* url of the file f"output_{timestamp}_{index:06d}.wav"
AudioUrlFrame_noindex(index) == Frame("audio_url", 0)
AudioUrlFrame(index) == Frame("audio_url", index)

\* completion_message: "complete", turned into "error" when
\* successful_count == 0
CompletionType(successful) == IF successful = 0 THEN "error" ELSE "complete"

InitLegacy ==
  /\ lg_n \in 1..MaxParagraphs
  /\ lg_pc = "start"
  /\ lg_index = 0
  /\ lg_sem = ConcurrencyLimit
  /\ lg_inflight = {}
  /\ lg_result = [k \in 0..(lg_n - 1) |-> "none"]
  /\ lg_frames = <<>>
  /\ lg_successful = 0
  /\ lg_failed = 0
  /\ LocalIdle
  /\ WebIdle
  /\ FilesIdle
  /\ ExtIdle

\* tts_stream up to the loop: get_voice (which catches its own errors),
\* the paragraph split, the semaphore; no frame is sent
LegacyStart ==
  /\ lg_pc = "start"
  /\ lg_pc' = "loop"
  /\ UNCHANGED <<localVars, webVars, fileVars, extVars,
                 lg_n, lg_index, lg_sem, lg_inflight,
                 lg_result, lg_frames, lg_successful, lg_failed>>

\* async with semaphore: take a slot, then await generate_tts_chunk
LegacyAcquire_spawn ==
  /\ lg_pc = "loop"
  /\ lg_index < lg_n
  /\ lg_inflight' = lg_inflight \cup {lg_index}
  /\ lg_index' = lg_index + 1
  /\ UNCHANGED <<localVars, webVars, fileVars, extVars,
                 lg_n, lg_pc, lg_sem, lg_result,
                 lg_frames, lg_successful, lg_failed>>
LegacyAcquire ==
  /\ lg_pc = "loop"
  /\ lg_index < lg_n
  /\ lg_sem > 0
  /\ lg_sem' = lg_sem - 1
  /\ lg_inflight' = lg_inflight \cup {lg_index}
  /\ lg_pc' = "generate"
  /\ UNCHANGED <<localVars, webVars, fileVars, extVars,
                 lg_n, lg_index, lg_result, lg_frames,
                 lg_successful, lg_failed>>

\* generate_tts_chunk returned the file path: send the audio_url frame,
\* count the success, leave the async with
LegacyChunkOk ==
  /\ lg_pc = "generate"
  /\ lg_result' = [lg_result EXCEPT ![lg_index] = "ok"]
  /\ lg_inflight' = lg_inflight \ {lg_index}
  /\ lg_frames' = Append(lg_frames, AudioUrlFrame(lg_index))
  /\ lg_successful' = lg_successful + 1
  /\ lg_sem' = lg_sem + 1
  /\ lg_index' = lg_index + 1
  /\ lg_pc' = "loop"
  /\ UNCHANGED <<localVars, webVars, fileVars, extVars, lg_n, lg_failed>>

\* generate_tts_chunk caught an error and returned None
LegacyChunkFail ==
  /\ lg_pc = "generate"
  /\ lg_result' = [lg_result EXCEPT ![lg_index] = "fail"]
  /\ lg_inflight' = lg_inflight \ {lg_index}
  /\ lg_failed' = lg_failed + 1
  /\ lg_sem' = lg_sem + 1
  /\ lg_index' = lg_index + 1
  /\ lg_pc' = "loop"
  /\ UNCHANGED <<localVars, webVars, fileVars, extVars,
                 lg_n, lg_frames, lg_successful>>

\* after the loop: send the completion message and return
LegacyComplete ==
  /\ lg_pc = "loop"
  /\ lg_index = lg_n
  /\ lg_frames' = Append(lg_frames, Frame(CompletionType(lg_successful), -1))
  /\ lg_pc' = "done"
  /\ UNCHANGED <<localVars, webVars, fileVars, extVars,
                 lg_n, lg_index, lg_sem, lg_inflight,
                 lg_result, lg_successful, lg_failed>>

NextLegacy ==
  \/ LegacyStart
  \/ LegacyAcquire
  \/ LegacyChunkOk
  \/ LegacyChunkFail
  \/ LegacyComplete

SpecLegacy == InitLegacy /\ [][NextLegacy]_vars

\* the scheduling of tts_stream: one coroutine on the event loop, and every
\* await of it completes (the provider call returns or raises), so a step
\* that is possible is eventually taken
FairSpecLegacy == SpecLegacy /\ WF_vars(NextLegacy)

\* --------------------- unified web server: stream_tts_endpoint and stop
\*
\* stream_tts_endpoint calls stream_tts_web(text, voice, language,
\* target_language, client_id); the generator of src/src/tts_service.py
\* declares (text, voice, target_language), so Python rejects the call with
\* TypeError before the generator body runs (WebCallRejected).  The loop of
\* the endpoint and the body of the generator run once the call binds
\* (WebGenStart), which is how every other caller of the generator in the
\* repository reaches it.

InitWeb ==
  /\ ws_n \in 1..MaxParagraphs
  /\ ws_voice_set \in BOOLEAN
  /\ ws_pc = "idle"
  /\ ws_i = 0
  /\ ws_inflight = {}
  /\ ws_result = [k \in 0..(ws_n - 1) |-> "none"]
  /\ ws_frames = <<>>
  /\ ws_successful = 0
  /\ ws_failed = 0
  /\ ws_http = 0
  /\ ws_stop_calls = 0
  /\ ws_stop_while_active = FALSE
  /\ ws_stop_http = 0
  /\ LocalIdle
  /\ LegacyIdle
  /\ FilesIdle
  /\ ExtIdle

\* the stream request is being served
WebStreaming == ws_pc \in {"started", "loop", "generate"}

\* stream_tts_endpoint: send the start frame
WebRequest ==
  /\ ws_pc = "idle"
  /\ ws_frames' = Append(ws_frames, Frame("start", -1))
  /\ ws_pc' = "started"
  /\ UNCHANGED <<localVars, legacyVars, fileVars, extVars,
                 ws_n, ws_voice_set, ws_i, ws_inflight,
                 ws_result, ws_successful, ws_failed, ws_http, ws_stop_calls,
                 ws_stop_while_active, ws_stop_http>>

\* the call of stream_tts_web raises TypeError: the except branch of the
\* endpoint sends an error frame and raises HTTPException(500)
WebCallRejected ==
  /\ ws_pc = "started"
  /\ ws_frames' = Append(ws_frames, Frame("error", -1))
  /\ ws_http' = 500
  /\ ws_pc' = "done"
  /\ UNCHANGED <<localVars, legacyVars, fileVars, extVars,
                 ws_n, ws_voice_set, ws_i, ws_inflight,
                 ws_result, ws_successful, ws_failed, ws_stop_calls,
                 ws_stop_while_active, ws_stop_http>>

\* the generator starts: optional translation, _split_into_paragraphs
WebGenStart ==
  /\ ws_pc = "started"
  /\ ws_pc' = "loop"
  /\ UNCHANGED <<localVars, legacyVars, fileVars, extVars,
                 ws_n, ws_voice_set, ws_i, ws_inflight,
                 ws_result, ws_frames, ws_successful, ws_failed, ws_http,
                 ws_stop_calls, ws_stop_while_active, ws_stop_http>>

\* stream_tts_web: file names, voice override, await generate_tts
WebParagraph ==
  /\ ws_pc = "loop"
  /\ ws_i < ws_n
  /\ ws_inflight' = ws_inflight \cup {ws_i}
  /\ ws_pc' = "generate"
  /\ UNCHANGED <<localVars, legacyVars, fileVars, extVars,
                 ws_n, ws_voice_set, ws_i, ws_result,
                 ws_frames, ws_successful, ws_failed, ws_http, ws_stop_calls,
                 ws_stop_while_active, ws_stop_http>>

\* generate_tts returned the file: the generator yields, the endpoint sends
\* the audio_url frame and counts the success
WebGenerateOk ==
  /\ ws_pc = "generate"
  /\ ws_result' = [ws_result EXCEPT ![ws_i] = "ok"]
  /\ ws_inflight' = ws_inflight \ {ws_i}
  /\ ws_frames' = Append(ws_frames, AudioUrlFrame(ws_i))
  /\ ws_successful' = ws_successful + 1
  /\ ws_i' = ws_i + 1
  /\ ws_pc' = "loop"
  /\ UNCHANGED <<localVars, legacyVars, fileVars, extVars,
                 ws_n, ws_voice_set, ws_failed,
                 ws_http, ws_stop_calls, ws_stop_while_active, ws_stop_http>>

\* generate_tts returned (None, None): the generator logs the failure and
\* yields nothing, so the endpoint does not see the paragraph at all
WebGenerateFail ==
  /\ ws_pc = "generate"
  /\ ws_result' = [ws_result EXCEPT ![ws_i] = "fail"]
  /\ ws_inflight' = ws_inflight \ {ws_i}
  /\ ws_i' = ws_i + 1
  /\ ws_pc' = "loop"
  /\ UNCHANGED <<localVars, legacyVars, fileVars, extVars,
                 ws_n, ws_voice_set, ws_frames,
                 ws_successful, ws_failed, ws_http, ws_stop_calls,
                 ws_stop_while_active, ws_stop_http>>

\* get_voice raised inside generate_tts: the generator re-raises, the
\* endpoint sends an error frame and raises HTTPException(500)
WebGenerateRaise ==
  /\ ws_pc = "generate"
  /\ ~ws_voice_set
  /\ ws_result' = [ws_result EXCEPT ![ws_i] = "raise"]
  /\ ws_inflight' = ws_inflight \ {ws_i}
  /\ ws_frames' = Append(ws_frames, Frame("error", -1))
  /\ ws_http' = 500
  /\ ws_pc' = "done"
  /\ UNCHANGED <<localVars, legacyVars, fileVars, extVars,
                 ws_n, ws_voice_set, ws_i,
                 ws_successful, ws_failed, ws_stop_calls,
                 ws_stop_while_active, ws_stop_http>>

\* the generator is exhausted: send the completion message, return 200
WebComplete ==
  /\ ws_pc = "loop"
  /\ ws_i = ws_n
  /\ ws_frames' = Append(ws_frames, Frame(CompletionType(ws_successful), -1))
  /\ ws_http' = 200
  /\ ws_pc' = "done"
  /\ UNCHANGED <<localVars, legacyVars, fileVars, extVars,
                 ws_n, ws_voice_set, ws_i, ws_inflight,
                 ws_result, ws_successful, ws_failed, ws_stop_calls,
                 ws_stop_while_active, ws_stop_http>>

\* stop_tts_streaming: tts_service.stop_streaming(client_id) is evaluated
\* first; TTSService defines no stop_streaming, so the attribute lookup
\* raises AttributeError, the except branch raises HTTPException(500), no
\* frame is sent and nothing of the stream is touched
StopRequest ==
  /\ ws_stop_calls < MaxStops
  /\ ws_stop_calls' = ws_stop_calls + 1
  /\ ws_stop_while_active' = (ws_stop_while_active \/ WebStreaming)
  /\ ws_stop_http' = 500
  /\ UNCHANGED <<localVars, legacyVars, fileVars, extVars,
                 ws_n, ws_voice_set, ws_pc, ws_i,
                 ws_inflight, ws_result, ws_frames, ws_successful, ws_failed,
                 ws_http>>

NextWeb ==
  \/ WebRequest
  \/ WebCallRejected
  \/ WebGenStart
  \/ WebParagraph
  \/ WebGenerateOk
  \/ WebGenerateFail
  \/ WebGenerateRaise
  \/ WebComplete
  \/ StopRequest

SpecWeb == InitWeb /\ [][NextWeb]_vars

\* ------------------------------------------- file manager: session files
\*
\* A path is the directory it lies in, the stem the manager built from the
\* prefix and the timestamp, and whether it is the stem itself (a path the
\* manager returned) or a per-chunk name talk() derives from the stem
\* (f"{output_file}_{i}.wav", which the manager never sees).

Path(dir, stem, chunk) == [dir |-> dir, stem |-> stem, chunk |-> chunk]

\* every path create_audio_file_path / create_translation_file_path can return
TrackablePaths ==
  {Path(d, <<"cli_output", t>>, FALSE) : d \in {"audio", "text"}, t \in 0..MaxClock}
    \cup {Path("translation", <<"translation", t>>, FALSE) : t \in 0..MaxClock}

InitFiles ==
  /\ fm_clock = 0
  /\ fm_created_files = <<>>
  /\ fm_files = {}
  /\ fm_dirs = SessionDirs
  /\ fm_locked \in {{}} \cup {{q} : q \in TrackablePaths}
  /\ fm_prev_op = "none"
  /\ fm_last_op = "none"
  /\ fm_prev_count = 0
  /\ fm_last_count = 0
  /\ fm_last_raised = FALSE
  /\ fm_files_before = {}
  /\ fm_session_mtime = 0
  /\ fm_orphan \in BOOLEAN
  /\ LocalIdle
  /\ LegacyIdle
  /\ WebIdle
  /\ ExtIdle

\* the clock advances between two calls of datetime.now()
Tick ==
  /\ fm_clock < MaxClock
  /\ fm_clock' = fm_clock + 1
  /\ UNCHANGED <<localVars, legacyVars, webVars, extVars,
                 fm_created_files, fm_files,
                 fm_dirs, fm_locked, fm_prev_op, fm_last_op, fm_prev_count,
                 fm_last_count, fm_last_raised,
                 fm_files_before, fm_session_mtime, fm_orphan>>

\* create_audio_file_path(prefix): the .wav path in audio/ and the .txt path
\* in text/ are appended to created_files
CreateAudioFilePath ==
  /\ Len(fm_created_files) + 2 <= MaxTracked
  /\ fm_created_files' = fm_created_files \o
       <<Path("audio", <<"cli_output", fm_clock>>, FALSE),
         Path("text", <<"cli_output", fm_clock>>, FALSE)>>
  /\ fm_prev_op' = fm_last_op
  /\ fm_last_op' = "create"
  /\ UNCHANGED <<localVars, legacyVars, webVars, extVars,
                 fm_clock, fm_files, fm_dirs,
                 fm_locked, fm_prev_count, fm_last_count, fm_last_raised,
                 fm_files_before, fm_session_mtime, fm_orphan>>

\* create_translation_file_path: one path in translation/
CreateTranslationFilePath ==
  /\ Len(fm_created_files) + 1 <= MaxTracked
  /\ fm_created_files' = Append(fm_created_files,
       Path("translation", <<"translation", fm_clock>>, FALSE))
  /\ fm_prev_op' = fm_last_op
  /\ fm_last_op' = "create"
  /\ UNCHANGED <<localVars, legacyVars, webVars, extVars,
                 fm_clock, fm_files, fm_dirs,
                 fm_locked, fm_prev_count, fm_last_count, fm_last_raised,
                 fm_files_before, fm_session_mtime, fm_orphan>>

Tracked == {fm_created_files[k] : k \in 1..Len(fm_created_files)}

\* the per-chunk files talk() writes next to a returned audio path
ChunkPaths == {Path("audio", q.stem, TRUE) : q \in {r \in Tracked : r.dir = "audio"}}

\* a caller writes a file at a returned path (run() writes the translation
\* file) or at a per-chunk path (generate_tts); open() needs the directory
WriteFile ==
  \E q \in Tracked \cup ChunkPaths :
    /\ q.dir \in fm_dirs
    /\ q \notin fm_files
    /\ fm_files' = fm_files \cup {q}
    /\ fm_prev_op' = fm_last_op
    /\ fm_last_op' = "write"
    /\ UNCHANGED <<localVars, legacyVars, webVars, extVars,
                   fm_clock, fm_created_files,
                   fm_dirs, fm_locked, fm_prev_count, fm_last_count,
                   fm_last_raised, fm_files_before, fm_session_mtime, fm_orphan>>

\* the for loop over created_files: a path that exists is unlinked and
\* counted; an OSError of unlink is caught and logged, the file stays
RECURSIVE UnlinkAll_nocheck(_, _, _)
UnlinkAll_nocheck(paths, files, count) ==
  IF paths = <<>> THEN [files |-> files, count |-> count]
  ELSE UnlinkAll_nocheck(Tail(paths), files \ {Head(paths)}, count + 1)
RECURSIVE UnlinkAll(_, _, _)
UnlinkAll(paths, files, count) ==
  IF paths = <<>> THEN [files |-> files, count |-> count]
  ELSE IF Head(paths) \in files /\ Head(paths) \notin fm_locked
         THEN UnlinkAll(Tail(paths), files \ {Head(paths)}, count + 1)
         ELSE UnlinkAll(Tail(paths), files, count)

\* directory.exists() and not any(directory.iterdir()), for the directories
\* that hold files
EmptyDirs(cands, dirs, files) ==
  {d \in cands \cap dirs : ~\E q \in files : q.dir = d}

\* the directories left after the rmdir loop over audio/, text/,
\* translation/ (and cache/ unless keep_cache) and the final rmdir of the
\* session directory when nothing is left in it
DirsAfterCleanup_keep(dirs, files, keep_cache) == dirs
DirsAfterCleanup(dirs, files, keep_cache) ==
  LET cands == IF keep_cache THEN {"audio", "text", "translation"}
               ELSE {"audio", "text", "translation", "cache"}
      left == dirs \ EmptyDirs(cands, dirs, files)
  IN IF "session" \in left /\ left = {"session"} THEN {} ELSE left

\* cleanup_session_files(keep_cache): the whole body runs inside
\* try/except Exception, so it returns cleanup_count and never raises
CleanupSessionFiles ==
  \E keep_cache \in BOOLEAN :
    LET r == UnlinkAll(fm_created_files, fm_files, 0) IN
      /\ fm_files' = r.files
      /\ fm_dirs' = DirsAfterCleanup(fm_dirs, r.files, keep_cache)
      /\ fm_prev_op' = fm_last_op
      /\ fm_last_op' = "cleanup"
      /\ fm_prev_count' = fm_last_count
      /\ fm_last_count' = r.count
      /\ fm_last_raised' = FALSE
      /\ fm_files_before' = fm_files
      /\ fm_session_mtime' =
           IF DirsAfterCleanup(fm_dirs, r.files, keep_cache) = fm_dirs
             THEN fm_session_mtime ELSE fm_clock
      /\ UNCHANGED <<localVars, legacyVars, webVars, extVars, fm_clock,
                     fm_created_files, fm_locked, fm_orphan>>

\* shutil.rmtree(session_dir): everything goes unless unlinking a file
\* raises OSError, which ends rmtree where it stands; what it had not
\* reached yet stays, the file it failed on and the directories above it
\* stay in any case
TreesAfterRmtree(dirs, files) ==
  IF files \cap fm_locked = {}
    THEN {[dirs |-> {}, files |-> {}]}
    ELSE {t \in [dirs : SUBSET dirs, files : SUBSET files] :
            /\ files \cap fm_locked \subseteq t.files
            /\ "session" \in t.dirs
            /\ \A q \in t.files : q.dir \in t.dirs}

\* dir_age > max_age_seconds for a directory last modified at mtime
OldEnough(mtime, max_age) == fm_clock - mtime > max_age

\* cleanup_old_sessions(max_age_hours): every session_* directory of
\* base_temp_dir that is old enough is removed with shutil.rmtree, the
\* manager's own session_dir being one of the directories iterated over;
\* an OSError is caught and logged per directory.  The orphan was last
\* modified before this session was created (mtime -1).
CleanupOldSessions ==
  \E max_age \in 0..MaxClock :
    /\ fm_orphan \/ "session" \in fm_dirs
    /\ fm_orphan' = (fm_orphan /\ ~OldEnough(-1, max_age))
    /\ IF "session" \in fm_dirs /\ OldEnough(fm_session_mtime, max_age)
         THEN \E t \in TreesAfterRmtree(fm_dirs, fm_files) :
                /\ fm_dirs' = t.dirs
                /\ fm_files' = t.files
         ELSE UNCHANGED <<fm_dirs, fm_files>>
    /\ fm_prev_op' = fm_last_op
    /\ fm_last_op' = "sweep"
    /\ UNCHANGED <<localVars, legacyVars, webVars, extVars, fm_clock,
                   fm_created_files, fm_locked, fm_prev_count, fm_last_count,
                   fm_last_raised, fm_files_before, fm_session_mtime>>


NextFiles ==
  \/ Tick
  \/ CreateAudioFilePath
  \/ CreateTranslationFilePath
  \/ WriteFile
  \/ CleanupSessionFiles
  \/ CleanupOldSessions

SpecFiles == InitFiles /\ [][NextFiles]_vars

\* ------------------------------------------- sessions of one process
\*
\* A run is one pipeline run of the process: a CLI invocation, an API
\* request or a stream request.  The object that serves it (TTSApplication,
\* the FileManager of api_server) obtains its file manager by calling
\* UnifiedFileManager(...), whatever the kind of the run.

RunKinds == {"cli", "api", "stream"}

notSess == <<coreVars, runVars, translateVars, playVars, voiceVars>>

InitSessions ==
  /\ us_instance = 0
  /\ us_next_id = 0
  /\ us_runs = [r \in 1..MaxRuns |->
                 [pc |-> "idle", kind |-> "none", session |-> 0]]
  /\ LocalIdle
  /\ LegacyIdle
  /\ WebIdle
  /\ FilesIdle
  /\ RunIdle
  /\ TranslateIdle
  /\ PlayIdle
  /\ VoiceIdle

\* UnifiedFileManager(base_temp_dir): __new__ creates the instance only when
\* _instance is None, __init__ generates a session id (timestamp plus eight
\* characters of a fresh uuid4) only for an instance not yet initialized;
\* the value is the new _instance and the session of the object returned
UnifiedFileManager_fresh(instance, next_id) ==
  [instance |-> next_id + 1, next_id |-> next_id + 1, session |-> next_id + 1]
UnifiedFileManager(instance, next_id) ==
  IF instance = 0
    THEN [instance |-> next_id + 1, next_id |-> next_id + 1, session |-> next_id + 1]
    ELSE [instance |-> instance, next_id |-> next_id, session |-> instance]

\* a run starts: the file manager it will use is constructed
RunStart(r) ==
  \E kind \in RunKinds :
    LET m == UnifiedFileManager(us_instance, us_next_id) IN
      /\ us_runs[r].pc = "idle"
      /\ us_instance' = m.instance
      /\ us_next_id' = m.next_id
      /\ us_runs' = [us_runs EXCEPT ![r] = [pc |-> "live", kind |-> kind, session |-> m.session]]
      /\ UNCHANGED notSess

\* the run's consumer has finished; _instance is left as it is
RunFinish(r) ==
  /\ us_runs[r].pc = "live"
  /\ us_runs' = [us_runs EXCEPT ![r].pc = "done"]
  /\ UNCHANGED <<notSess, us_instance, us_next_id>>

NextSessions ==
  \E r \in 1..MaxRuns : RunStart(r) \/ RunFinish(r)

SpecSessions == InitSessions /\ [][NextSessions]_vars

\* ------------------------------------------- text segmentation and run()
\*
\* A text is a sequence of characters.  Four characters stand for the
\* classes the code tells apart: a letter, a blank, a boundary character
\* that str.strip() keeps (".") and one that it removes ("\n").

Chars == {"a", " ", ".", "\n"}

\* settings.special_characters, restricted to Chars
special_characters == {".", "\n"}

\* the characters str.strip() removes
IsSpace(c) == c \in {" ", "\n"}

Texts == UNION {[1..n -> Chars] : n \in 0..MaxLen}

\* str.lstrip() and str.rstrip()
RECURSIVE LStrip(_)
LStrip(s) ==
  IF s # <<>> /\ IsSpace(Head(s)) THEN LStrip(Tail(s)) ELSE s

RECURSIVE RStrip(_)
RStrip(s) ==
  IF s # <<>> /\ IsSpace(s[Len(s)]) THEN RStrip(SubSeq(s, 1, Len(s) - 1)) ELSE s

\* str.strip()
Strip_lead(s) == LStrip(s)
Strip(s) == RStrip(LStrip(s))

\* the for loop of split_text_into_chunks and the test of the remainder:
\* text is what is left to read, current_chunk and chunks are the locals
RECURSIVE SplitLoop_drop(_, _, _)
SplitLoop_drop(text, current_chunk, chunks) ==
  IF text = <<>>
    THEN IF current_chunk # <<>>
           THEN Append(chunks, Strip(current_chunk))
           ELSE chunks
    ELSE IF Head(text) \in special_characters
           THEN SplitLoop_drop(Tail(text), <<>>,
                               Append(chunks, Strip(current_chunk)))
           ELSE SplitLoop_drop(Tail(text), Append(current_chunk, Head(text)),
                               chunks)
RECURSIVE SplitLoop(_, _, _)
SplitLoop(text, current_chunk, chunks) ==
  IF text = <<>>
    THEN IF current_chunk # <<>>
           THEN Append(chunks, Strip(current_chunk))
           ELSE chunks
    ELSE LET grown == Append(current_chunk, Head(text)) IN
           IF Head(text) \in special_characters
             THEN SplitLoop(Tail(text), <<>>, Append(chunks, Strip(grown)))
             ELSE SplitLoop(Tail(text), grown, chunks)

split_text_into_chunks(text) == SplitLoop(text, <<>>, <<>>)

\* "".join(chunks)
RECURSIVE Join(_)
Join(chunks) ==
  IF chunks = <<>> THEN <<>> ELSE Head(chunks) \o Join(Tail(chunks))

\* the literals of run(): "there is no input file" and
\* "I have no idea what to say" (letters and blanks, no boundary character)
NoInputFileText == <<"a", " ", "a">>
FallbackText == <<"a", " ", "a", " ", "a">>

\* what translate_text can return for a text when a target language is set:
\* the text itself (the provider raised), nothing (the provider returned
\* None) or another text
TranslationsOf(text) == {text, <<>>, <<"a", ".", " ", "a">>}

notRun == <<coreVars, sessVars, translateVars, playVars, voiceVars>>

\* run(input_text, is_file, target_language) is called: run_mode is "default"
\* for input_text None, "file" for is_file, "text" otherwise; run_content is
\* the text given or the content of the file read, if that file exists
InitRun ==
  /\ run_mode \in {"default", "file", "text"}
  /\ run_exists \in BOOLEAN
  /\ run_content \in Texts
  /\ run_mode = "text" => run_exists
  /\ ~run_exists => run_content = <<>>
  /\ run_target \in BOOLEAN
  /\ run_pc = "start"
  /\ run_original = <<>>
  /\ run_translated = <<>>
  /\ run_chunks = <<>>
  /\ run_reconstructed = <<>>
  /\ run_spoken = <<>>
  /\ run_talk_chunks = <<>>
  /\ run_raised = FALSE
  /\ run_cleaned = FALSE
  /\ LocalIdle
  /\ LegacyIdle
  /\ WebIdle
  /\ FilesIdle
  /\ SessIdle
  /\ TranslateIdle
  /\ PlayIdle
  /\ VoiceIdle

\* Step 1 of run(): the input is read.  The default input file is opened
\* inside try/except FileNotFoundError; the file named by the caller
\* (is_file) is opened outside any try, so a missing file ends run() with
\* the FileNotFoundError of open()
ReadInput ==
  /\ run_pc = "start"
  /\ \/ /\ run_mode = "default"
        /\ run_original' = IF run_exists THEN Strip(run_content)
                           ELSE NoInputFileText
        /\ run_pc' = "read"
        /\ UNCHANGED run_raised
     \/ /\ run_mode = "file"
        /\ run_exists
        /\ run_original' = Strip(run_content)
        /\ run_pc' = "read"
        /\ UNCHANGED run_raised
     \/ /\ run_mode = "file"
        /\ ~run_exists
        /\ run_raised' = TRUE
        /\ run_pc' = "raised"
        /\ UNCHANGED run_original
     \/ /\ run_mode = "text"
        /\ run_original' = run_content
        /\ run_pc' = "read"
        /\ UNCHANGED run_raised
  /\ UNCHANGED <<notRun, run_mode, run_exists, run_content, run_target,
                 run_translated, run_chunks, run_reconstructed, run_spoken,
                 run_talk_chunks, run_cleaned>>

\* translate_text is called only for a target language
TranslateInput ==
  /\ run_pc = "read"
  /\ \E t \in (IF run_target THEN TranslationsOf(run_original)
               ELSE {run_original}) :
       run_translated' = t
  /\ run_pc' = "translated"
  /\ UNCHANGED <<notRun, run_mode, run_exists, run_content, run_target,
                 run_original, run_chunks, run_reconstructed, run_spoken,
                 run_talk_chunks, run_raised, run_cleaned>>

\* Step 2 and 2b: the translated text is split, the chunks are joined
\* again and the joined text is written to the translation file
SplitAndReconstruct ==
  /\ run_pc = "translated"
  /\ run_chunks' = split_text_into_chunks(run_translated)
  /\ run_reconstructed' = Join(split_text_into_chunks(run_translated))
  /\ run_pc' = "prepared"
  /\ UNCHANGED <<notRun, run_mode, run_exists, run_content, run_target,
                 run_original, run_translated, run_spoken, run_talk_chunks,
                 run_raised, run_cleaned>>

\* talk(reconstructed_translated_text, output_file): talk() splits the text
\* it is given and handles every Exception itself, and
\* create_audio_file_path opens no file, so nothing in the try block of
\* run() raises FileNotFoundError and its except branch is never entered
TalkReconstructed ==
  /\ run_pc = "prepared"
  /\ run_spoken' = Append(run_spoken, run_reconstructed)
  /\ run_talk_chunks' = split_text_into_chunks(run_reconstructed)
  /\ run_pc' = "talked"
  /\ UNCHANGED <<notRun, run_mode, run_exists, run_content, run_target,
                 run_original, run_translated, run_chunks, run_reconstructed,
                 run_raised, run_cleaned>>

\* the finally block: output_file is set, cleanup_session_files is called
CleanupAfterTalk ==
  /\ run_pc = "talked"
  /\ run_cleaned' = TRUE
  /\ run_pc' = "done"
  /\ UNCHANGED <<notRun, run_mode, run_exists, run_content, run_target,
                 run_original, run_translated, run_chunks, run_reconstructed,
                 run_spoken, run_talk_chunks, run_raised>>

NextRun ==
  \/ ReadInput
  \/ TranslateInput
  \/ SplitAndReconstruct
  \/ TalkReconstructed
  \/ CleanupAfterTalk

SpecRun == InitRun /\ [][NextRun]_vars

\* ------------------------------------------------ translate_text
\*
\* The text is a sequence of characters as above; its length in characters
\* is what translate_text compares with settings.max_translate_chars.

\* str.splitlines(keepends=True): every line keeps its newline
RECURSIVE SplitLines(_, _)
SplitLines(text, line) ==
  IF text = <<>>
    THEN IF line # <<>> THEN <<line>> ELSE <<>>
    ELSE IF Head(text) = "\n"
           THEN <<Append(line, "\n")>> \o SplitLines(Tail(text), <<>>)
           ELSE SplitLines(Tail(text), Append(line, Head(text)))

\* the loop over the lines: a chunk is closed when the next line would take
\* it over max_chars; the line is then added to the new chunk whatever its
\* own length
RECURSIVE GroupLines(_, _, _)
GroupLines(lines, current, chunks) ==
  IF lines = <<>>
    THEN IF current # <<>> THEN Append(chunks, current) ELSE chunks
    ELSE IF Len(current) + Len(Head(lines)) > max_translate_chars
              /\ current # <<>>
           THEN GroupLines(Tail(lines), Head(lines), Append(chunks, current))
           ELSE GroupLines(Tail(lines), current \o Head(lines), chunks)

\* [c for c in chunks if c.strip()]
RECURSIVE NonBlank(_)
NonBlank(chunks) ==
  IF chunks = <<>> THEN <<>>
  ELSE IF Strip(Head(chunks)) # <<>>
         THEN <<Head(chunks)>> \o NonBlank(Tail(chunks))
         ELSE NonBlank(Tail(chunks))

\* the chunks translate_text hands to the provider, in order
TranslationChunks(text) == NonBlank(GroupLines(SplitLines(text, <<>>), <<>>, <<>>))

\* the .text of the provider's answer for a chunk: another text of the same
\* shape (letters and full stops replaced, whitespace kept)
Translated(chunk) ==
  [i \in 1..Len(chunk) |->
     IF chunk[i] = "a" THEN "b" ELSE IF chunk[i] = "." THEN "!" ELSE chunk[i]]

notTranslate == <<coreVars, sessVars, runVars, playVars, voiceVars>>

\* translate_text(text, target_language) is called
InitTranslate ==
  /\ tr_text \in Texts
  /\ tr_target \in BOOLEAN
  /\ tr_pc = "start"
  /\ tr_chunks = <<>>
  /\ tr_idx = 0
  /\ tr_calls = <<>>
  /\ tr_outcomes = <<>>
  /\ tr_translated_chunks = <<>>
  /\ tr_result = <<>>
  /\ LocalIdle
  /\ LegacyIdle
  /\ WebIdle
  /\ FilesIdle
  /\ SessIdle
  /\ RunIdle
  /\ PlayIdle
  /\ VoiceIdle

\* without target language the text is returned as it is; with one, the
\* text is cut into chunks and the loop over the non-blank chunks begins
TranslateStart ==
  /\ tr_pc = "start"
  /\ IF tr_target
       THEN /\ tr_chunks' = TranslationChunks(tr_text)
            /\ tr_idx' = 1
            /\ tr_pc' = "loop"
            /\ UNCHANGED tr_result
       ELSE /\ tr_result' = tr_text
            /\ tr_pc' = "done"
            /\ UNCHANGED <<tr_chunks, tr_idx>>
  /\ UNCHANGED <<notTranslate, tr_text, tr_target, tr_calls, tr_outcomes,
                 tr_translated_chunks>>

\* one pass of the loop: translator.translate(chunk, ...) is called and ...
ProviderCall(outcome, piece) ==
  /\ tr_pc = "loop"
  /\ tr_idx <= Len(tr_chunks)
  /\ tr_calls' = Append(tr_calls, tr_chunks[tr_idx])
  /\ tr_outcomes' = Append(tr_outcomes, outcome)
  /\ tr_translated_chunks' = Append(tr_translated_chunks, piece)
  /\ tr_idx' = tr_idx + 1
  /\ UNCHANGED <<notTranslate, tr_text, tr_target, tr_pc, tr_chunks, tr_result>>

\* ... returns a translation, which is appended
ProviderOk == ProviderCall("ok", Translated(tr_chunks[tr_idx]))

\* ... returns an answer whose text is None: the empty string is appended
ProviderNone == ProviderCall("none", <<>>)

\* ... raises: the except branch appends the original chunk and the loop
\* goes on
ProviderRaise_abort ==
  /\ tr_pc = "loop"
  /\ tr_idx <= Len(tr_chunks)
  /\ tr_calls' = Append(tr_calls, tr_chunks[tr_idx])
  /\ tr_outcomes' = Append(tr_outcomes, "raise")
  /\ tr_translated_chunks' = Append(tr_translated_chunks, tr_chunks[tr_idx])
  /\ tr_result' = Join(Append(tr_translated_chunks, tr_chunks[tr_idx]))
  /\ tr_pc' = "done"
  /\ UNCHANGED <<notTranslate, tr_text, tr_target, tr_chunks, tr_idx>>
ProviderRaise == ProviderCall("raise", tr_chunks[tr_idx])

\* the loop is over: "".join(translated_chunks) is returned
TranslateReturn ==
  /\ tr_pc = "loop"
  /\ tr_idx > Len(tr_chunks)
  /\ tr_result' = Join(tr_translated_chunks)
  /\ tr_pc' = "done"
  /\ UNCHANGED <<notTranslate, tr_text, tr_target, tr_chunks, tr_idx,
                 tr_calls, tr_outcomes, tr_translated_chunks>>

NextTranslate ==
  \/ TranslateStart
  \/ ProviderOk
  \/ ProviderNone
  \/ ProviderRaise
  \/ TranslateReturn

SpecTranslate == InitTranslate /\ [][NextTranslate]_vars

\* ------------------------------------------------ play_audio
\*
\* A sidecar file is the sequence of its lines (f.read().split('\n')) and a
\* line is the sequence of its fields (line.split(':')), each a string.
\* Times are whole ticks; a numeral is the string of a time.

Digits == <<"0", "1", "2", "3", "4", "5", "6", "7", "8", "9">>

\* str(n) of a time, as generate_tts formats offset and duration
Numeral(n) == Digits[n + 1]

\* float(field) succeeds
IsNumber(field) == \E n \in 0..9 : Digits[n + 1] = field

\* float(field)
FloatOf(field) == CHOOSE n \in 0..9 : Digits[n + 1] = field

\* the line generate_tts writes for a WordBoundary event,
\* f"{text_val}:{offset}:{duration}": a word that contains the delimiter
\* contributes more than one field
WordBoundaryLine(word_fields, offset, duration) ==
  word_fields \o <<Numeral(offset), Numeral(duration)>>

\* the lines of the sidecar files considered: the lines generate_tts writes
\* for a plain word and for a word with a colon in it, the empty line that
\* follows the last newline, a line of two fields and a line of three
\* fields that are not numbers
SidecarLines ==
  {WordBoundaryLine(<<"w">>, s, d) : s \in 0..(MaxTime - 2), d \in 1..2}
    \cup {WordBoundaryLine(<<"w", "w">>, 0, 1)}
    \cup {<<"">>, <<"w", "1">>, <<"w", "w", "w">>}

SidecarFiles == UNION {[1..n -> SidecarLines] : n \in 0..MaxLines}

\* the loop of load_word_boundaries: a line of three fields is converted
\* and appended, float() raising ValueError for a field that is no number;
\* any other line is passed over
RECURSIVE LoadLoop_stop(_, _)
LoadLoop_stop(lines, word_boundaries) ==
  IF lines = <<>> THEN [raised |-> FALSE, value |-> word_boundaries]
  ELSE LET parts == Head(lines) IN
    IF Len(parts) = 3
      THEN IF IsNumber(parts[2]) /\ IsNumber(parts[3])
             THEN LoadLoop_stop(Tail(lines), Append(word_boundaries,
                    [word |-> parts[1], start |-> FloatOf(parts[2]),
                     duration |-> FloatOf(parts[3])]))
             ELSE [raised |-> TRUE, value |-> <<>>]
      ELSE [raised |-> FALSE, value |-> word_boundaries]
RECURSIVE LoadLoop(_, _)
LoadLoop(lines, word_boundaries) ==
  IF lines = <<>> THEN [raised |-> FALSE, value |-> word_boundaries]
  ELSE LET parts == Head(lines) IN
    IF Len(parts) = 3
      THEN IF IsNumber(parts[2]) /\ IsNumber(parts[3])
             THEN LoadLoop(Tail(lines), Append(word_boundaries,
                    [word |-> parts[1], start |-> FloatOf(parts[2]),
                     duration |-> FloatOf(parts[3])]))
             ELSE [raised |-> TRUE, value |-> <<>>]
      ELSE LoadLoop(Tail(lines), word_boundaries)

load_word_boundaries(lines) == LoadLoop(lines, <<>>)

\* word_boundaries.index(entry): the first position holding an equal entry
IndexOf(word_boundaries, entry) ==
  CHOOSE j \in 1..Len(word_boundaries) :
    /\ word_boundaries[j] = entry
    /\ \A i \in 1..(j - 1) : word_boundaries[i] # entry

\* display_synchronized_text, from entry k of the list on: an entry whose
\* window holds elapsed_time and whose word is not empty is printed and the
\* word of the first equal entry is blanked; shown collects the positions
\* printed
RECURSIVE DisplayLoop(_, _, _, _)
DisplayLoop(k, word_boundaries, shown, elapsed_time) ==
  IF k > Len(word_boundaries)
    THEN [word_boundaries |-> word_boundaries, shown |-> shown]
    ELSE LET entry == word_boundaries[k] IN
      IF /\ entry.start <= elapsed_time
         /\ elapsed_time < entry.start + entry.duration
         /\ entry.word # ""
        THEN DisplayLoop(k + 1,
               [word_boundaries EXCEPT
                  ![IndexOf(word_boundaries, entry)].word = ""],
               Append(shown, k), elapsed_time)
        ELSE DisplayLoop(k + 1, word_boundaries, shown, elapsed_time)

notPlay == <<coreVars, sessVars, runVars, translateVars, voiceVars>>

\* play_audio(audio_file, text_file) is called on a sidecar file
InitPlay ==
  /\ pl_lines \in SidecarFiles
  /\ pl_pc = "start"
  /\ pl_loaded = <<>>
  /\ pl_load_raised = FALSE
  /\ pl_boundaries = <<>>
  /\ pl_error = FALSE
  /\ pl_elapsed = -1
  /\ pl_polls = {}
  /\ pl_shown = <<>>
  /\ LocalIdle
  /\ LegacyIdle
  /\ WebIdle
  /\ FilesIdle
  /\ SessIdle
  /\ RunIdle
  /\ TranslateIdle
  /\ VoiceIdle

\* load_word_boundaries raised: the except branch of play_audio logs the
\* error and play_audio returns without having played anything
LoadRaises ==
  /\ pl_pc = "start"
  /\ load_word_boundaries(pl_lines).raised
  /\ pl_load_raised' = TRUE
  /\ pl_error' = TRUE
  /\ pl_pc' = "done"
  /\ UNCHANGED <<notPlay, pl_lines, pl_loaded, pl_boundaries, pl_elapsed,
                 pl_polls, pl_shown>>

\* the boundaries are loaded, then the mixer or the Sound constructor
\* raises: same except branch
MixerRaises ==
  /\ pl_pc = "start"
  /\ ~load_word_boundaries(pl_lines).raised
  /\ pl_loaded' = load_word_boundaries(pl_lines).value
  /\ pl_boundaries' = load_word_boundaries(pl_lines).value
  /\ pl_error' = TRUE
  /\ pl_pc' = "done"
  /\ UNCHANGED <<notPlay, pl_lines, pl_load_raised, pl_elapsed, pl_polls,
                 pl_shown>>

\* the boundaries are loaded and the sound starts to play
PlayBegin ==
  /\ pl_pc = "start"
  /\ ~load_word_boundaries(pl_lines).raised
  /\ pl_loaded' = load_word_boundaries(pl_lines).value
  /\ pl_boundaries' = load_word_boundaries(pl_lines).value
  /\ pl_pc' = "playing"
  /\ UNCHANGED <<notPlay, pl_lines, pl_load_raised, pl_error, pl_elapsed,
                 pl_polls, pl_shown>>

\* one pass of the while loop: the mixer is busy, the elapsed time is read
\* (later than at the pass before, by however much) and
\* display_synchronized_text is called with it
Poll ==
  /\ pl_pc = "playing"
  /\ \E elapsed_time \in (pl_elapsed + 1)..MaxTime :
       LET r == DisplayLoop(1, pl_boundaries, pl_shown, elapsed_time) IN
         /\ pl_elapsed' = elapsed_time
         /\ pl_polls' = pl_polls \cup {elapsed_time}
         /\ pl_boundaries' = r.word_boundaries
         /\ pl_shown' = r.shown
  /\ UNCHANGED <<notPlay, pl_lines, pl_pc, pl_loaded, pl_load_raised,
                 pl_error>>

\* the mixer is no longer busy: the loop ends and play_audio returns
PlayEnd ==
  /\ pl_pc = "playing"
  /\ pl_pc' = "done"
  /\ UNCHANGED <<notPlay, pl_lines, pl_loaded, pl_load_raised, pl_boundaries,
                 pl_error, pl_elapsed, pl_polls, pl_shown>>

NextPlay ==
  \/ LoadRaises
  \/ MixerRaises
  \/ PlayBegin
  \/ Poll
  \/ PlayEnd

SpecPlay == InitPlay /\ [][NextPlay]_vars

\* ------------------------------------------- the global voice setting
\*
\* Calls that synthesize with a voice of their own (stream_tts_web,
\* handle_synthesize of the MCP server) run as coroutines of one event
\* loop and share the module-level settings object.

notVoice == <<coreVars, sessVars, runVars, translateVars, playVars>>

\* the voice argument of a call: "" is None, no voice named
RequestVoices == {"", "X", "Y"}

\* tts_voice as the configuration leaves it: '' unless a file or TTS_VOICE
\* names a default
ConfiguredVoices == {"", "D"}

\* get_voice: settings.tts_voice when it is non-empty, else a voice chosen
\* from the provider's list by the detected language
get_voice(tts_voice) == IF tts_voice # "" THEN tts_voice ELSE "auto"

InitVoice ==
  /\ vc_configured \in ConfiguredVoices
  /\ settings_tts_voice = vc_configured
  /\ vc_req \in [1..MaxRequests ->
                   [pc : {"loop"}, voice : RequestVoices, n : 1..MaxChunks,
                    i : {0}, original_voice : {""}]]
  /\ vc_used = <<>>
  /\ LocalIdle
  /\ LegacyIdle
  /\ WebIdle
  /\ FilesIdle
  /\ SessIdle
  /\ RunIdle
  /\ TranslateIdle
  /\ PlayIdle

\* one pass of the loop of stream_tts_web up to the first suspension: the
\* override of settings.tts_voice when the call names a voice, then
\* generate_tts, whose get_voice reads settings.tts_voice before anything
\* is awaited
SynthesisBegin(r) ==
  LET q == vc_req[r]
      tts_voice == IF q.voice # "" THEN q.voice ELSE settings_tts_voice
  IN /\ q.pc = "loop"
     /\ q.i < q.n
     /\ settings_tts_voice' = tts_voice
     /\ vc_req' = [vc_req EXCEPT
                     ![r].pc = "generate",
                     ![r].original_voice =
                        IF q.voice # "" THEN settings_tts_voice
                        ELSE q.original_voice]
     /\ vc_used' = Append(vc_used, [req |-> r, voice |-> get_voice(tts_voice)])
     /\ UNCHANGED <<notVoice, vc_configured>>

\* generate_tts returned and the consumer took what was yielded: the
\* finally block puts original_voice back when the call named a voice
SynthesisEnd(r) ==
  LET q == vc_req[r]
  IN /\ q.pc = "generate"
     /\ settings_tts_voice' =
          IF q.voice # "" THEN q.original_voice ELSE settings_tts_voice
     /\ vc_req' = [vc_req EXCEPT
                     ![r].i = q.i + 1,
                     ![r].pc = IF q.i + 1 < q.n THEN "loop" ELSE "done"]
     /\ UNCHANGED <<notVoice, vc_configured, vc_used>>

NextVoice ==
  \E r \in 1..MaxRequests : SynthesisBegin(r) \/ SynthesisEnd(r)

SpecVoice == InitVoice /\ [][NextVoice]_vars

\* ------------------------------------------------------- claims, local mode

\* what the playback worker observes: the items it took from play_queue
\* (process_chunk queues nothing for a chunk whose synthesis failed)
ConsumerObserved == play_started

\* C1: in local mode the playback worker plays the successfully synthesized
\* chunks in strictly ascending chunk-index order: play_audio for chunk j
\* never starts before play_audio of every successfully synthesized chunk
\* i < j has returned.
C1_PlayOrder ==
  \A k \in 1..Len(play_started) :
    /\ \A m \in 1..(k - 1) : play_started[m] < play_started[k]
    /\ \A i \in 0..(play_started[k] - 1) :
         synth[i] = "ok" =>
           /\ \E m \in 1..(k - 1) : play_started[m] = i
           /\ i \in play_returned

\* chunks 0 and 2 were played around a failed chunk 1 while talk() ran on
C1_Witness ==
  /\ nChunks = 3
  /\ synth[1] = "fail"
  /\ play_started = <<0, 2>>
  /\ play_returned = {0, 2}
  /\ talk_pc = "done"

\* C3: a failure of one unit's synthesis (raised while choosing the voice or
\* while streaming the audio) never cancels the other units: every unit other
\* than the failed ones is still synthesized and delivered to the consumer.
C3_FailureIsolation ==
  talk_pc = "done" =>
    \A i \in 0..(nChunks - 1) :
      synth[i] \notin {"fail", "raise"} =>
        /\ synth[i] = "ok"
        /\ \E k \in 1..Len(ConsumerObserved) : ConsumerObserved[k] = i

\* C4: the consumer observes exactly one result per unit index, in order; a
\* failed unit is delivered as a Failure result at its position, never
\* silently omitted.
C4_OneResultPerUnit ==
  (talk_pc = "done" /\ ~talk_error) =>
    /\ Len(ConsumerObserved) = nChunks
    /\ \A k \in 1..Len(ConsumerObserved) : ConsumerObserved[k] = k - 1

\* C22: the cleanup in the finally block of run() never executes while a
\* unit of that run is still queued for playback or being played, also
\* when talk() ended early because processing a chunk raised.
C22_CleanupAfterConsumption == cleanup_done => cleanup_pending = {}

\* the chunks whose play_audio has been started and has not returned
Executing ==
  {play_started[k] : k \in 1..Len(play_started)} \ play_returned

\* C24: at every instant at most one play_audio call of a run is executing,
\* and the worker takes the next queue item only after the previous
\* play_audio has returned.
C24_SingleConsumer ==
  /\ Cardinality(Executing) <= 1
  /\ \A k \in 1..(Len(play_started) - 1) : play_started[k] \in play_returned
  /\ worker_pc = "playing" =>
       /\ Len(play_started) > 0
       /\ worker_item = play_started[Len(play_started)]

\* chunk 1 is being played after chunk 0 returned, chunk 2 waits in the queue
C24_Witness ==
  /\ nChunks = 3
  /\ play_started = <<0, 1>>
  /\ play_returned = {0}
  /\ worker_pc = "playing"
  /\ play_queue # <<>>
  /\ Head(play_queue) = 2

\* C25: a playback failure for one unit does not propagate out of
\* play_audio: the playback worker stays alive (it leaves its loop on the
\* sentinel only) and goes on to play every later unit in the queue.
C25_PlaybackFailureIsolated ==
  /\ play_failed \subseteq play_returned
  /\ worker_pc = "stopped" =>
       /\ talk_pc \in {"await_play", "done"}
       /\ \A i \in 0..(nChunks - 1) : synth[i] = "ok" => i \in play_returned

\* playback of chunk 0 failed, chunks 1 and 2 were played after it and the
\* worker left on the sentinel
C25_Witness ==
  /\ nChunks = 3
  /\ play_failed = {0}
  /\ play_started = <<0, 1, 2>>
  /\ play_returned = {0, 1, 2}
  /\ worker_pc = "stopped"
  /\ talk_pc = "done"

\* C26: whenever talk() returns (also when processing a chunk raised) the
\* end-of-stream sentinel has been enqueued after every unit's result, the
\* playback worker task has consumed it and terminated, and every unit
\* enqueued before the sentinel has been played.
C26_TalkJoinsWorker ==
  talk_pc = "done" =>
    /\ worker_pc = "stopped"
    /\ play_queue = <<>>
    /\ \A i \in 0..(nChunks - 1) : synth[i] = "ok" => i \in play_returned

\* ------------------------------------------------------ claims, remote mode

\* the units referenced by the audio_url frames of a frame sequence, in order
RECURSIVE AudioUnits(_)
AudioUnits(frames) ==
  IF frames = <<>> THEN <<>>
  ELSE IF Head(frames).type = "audio_url"
         THEN <<Head(frames).unit>> \o AudioUnits(Tail(frames))
         ELSE AudioUnits(Tail(frames))

StrictlyAscending(sq) ==
  \A a \in 1..Len(sq) : \A b \in 1..Len(sq) : a < b => sq[a] < sq[b]

CountOutcome(result, n, o) == Cardinality({k \in 0..(n - 1) : result[k] = o})

\* C2: the audio_url frames sent to a client for one stream request reference
\* units in strictly ascending unit-index order, and no unit is referenced by
\* more than one frame.
C2_FramesAscending == StrictlyAscending(AudioUnits(lg_frames))

\* a finished request that sent frames for units 0 and 2 around a failed unit
C2_Witness ==
  /\ lg_n = 3
  /\ lg_pc = "done"
  /\ lg_result[1] = "fail"
  /\ AudioUnits(lg_frames) = <<0, 2>>

C6_FrameSequence ==
  lg_pc = "done" =>
    /\ Len(lg_frames) >= 2
    /\ lg_frames[1].type = "start"
    /\ \A k \in 2..(Len(lg_frames) - 1) : lg_frames[k].type = "audio_url"
    /\ lg_frames[Len(lg_frames)].type =
         (IF CountOutcome(lg_result, lg_n, "ok") > 0 THEN "complete"
          ELSE "error")

HasFrame(frames, type) == \E k \in 1..Len(frames) : frames[k].type = type

\* C8: stop on an actively streaming client sends it a stopped frame and the
\* stream run sends no complete or error frame afterwards; stop on a client
\* that is not streaming sends no frame.
C8_StoppedIsTerminal ==
  /\ ws_stop_while_active => HasFrame(ws_frames, "stopped")
  /\ \A k \in 1..Len(ws_frames) :
       ws_frames[k].type = "stopped" =>
         \A m \in (k + 1)..Len(ws_frames) :
           ws_frames[m].type \notin {"complete", "error"}
  /\ (ws_stop_calls > 0 /\ ~ws_stop_while_active) =>
       ~HasFrame(ws_frames, "stopped")

\* C9: at every instant of one pipeline run at most concurrency_limit (2)
\* synthesis calls are in flight; further units wait for a free slot.
C9_BoundedConcurrency == Cardinality(lg_inflight) <= ConcurrencyLimit

\* a call is in flight while later units of the request are still waiting
C9_Witness ==
  /\ lg_pc = "generate"
  /\ lg_inflight = {lg_index}
  /\ lg_sem = ConcurrencyLimit - 1
  /\ lg_index + 1 < lg_n

\* C21: for a run with at least 2 units and concurrency_limit = 2, two
\* synthesis calls of that run are in flight at the same time at some point
\* of the run.
C21_TwoInFlight ==
  (lg_n >= 2 /\ ConcurrencyLimit = 2) => <>(Cardinality(lg_inflight) >= 2)

\* -------------------------------------------------- claims, file manager

\* C10: calling cleanup_session_files twice in succession on the same session
\* (no path creation or file write in between) never raises, and the second
\* call returns 0.
C10_CleanupIdempotent ==
  (fm_prev_op = "cleanup" /\ fm_last_op = "cleanup") =>
    /\ fm_last_count = 0
    /\ ~fm_last_raised

\* two cleanups in a row, the first of which removed files, left a file it
\* could not unlink and a per-chunk file it does not track
C10_Witness ==
  /\ fm_prev_op = "cleanup"
  /\ fm_last_op = "cleanup"
  /\ fm_prev_count > 0
  /\ \E q \in fm_files : q \in Tracked
  /\ \E q \in fm_files : q.chunk

\* a tracked file that existed when the last cleanup began could not be
\* unlinked (the OSError branch of the loop was taken)
UnlinkFailed == \E q \in Tracked : q \in fm_files_before /\ q \in fm_locked

\* C11: cleanup_session_files returns exactly the number of files it removed,
\* removes only tracked files and leaves every untracked file in place; when
\* no unlink failed, no tracked path exists afterwards, every audio/, text/
\* and translation/ directory that holds no file is removed, and the session
\* directory is removed when nothing is left in it.
C11_CleanupRemovesTracked ==
  fm_last_op = "cleanup" =>
    /\ fm_files \subseteq fm_files_before
    /\ fm_last_count = Cardinality(fm_files_before \ fm_files)
    /\ (fm_files_before \ fm_files) \subseteq Tracked
    /\ \A q \in fm_files_before : q \notin Tracked => q \in fm_files
    /\ ~UnlinkFailed =>
         /\ Tracked \cap fm_files = {}
         /\ \A d \in {"audio", "text", "translation"} :
              (~\E q \in fm_files : q.dir = d) => d \notin fm_dirs
         /\ (fm_dirs \ {"session"} = {}) => fm_dirs = {}

\* a cleanup without unlink failure removed two tracked files, emptied and
\* removed text/ and translation/, and left a per-chunk file in audio/
C11_Witness ==
  /\ fm_last_op = "cleanup"
  /\ ~UnlinkFailed
  /\ fm_last_count = 2
  /\ \E q \in fm_files_before : q.dir = "translation"
  /\ \E q \in fm_files : q.chunk
  /\ fm_dirs = {"session", "audio", "cache"}

\* C12: every artifact file written during a run lies at a path of the
\* session directory that is recorded exactly once in created_files.
C12_ArtifactsTracked ==
  \A q \in fm_files :
    Cardinality({k \in 1..Len(fm_created_files) : fm_created_files[k] = q}) = 1

\* the paths the last create_audio_file_path / create_translation_file_path
\* returned: the last entry of created_files, and the one before it when
\* the last is the text path of an audio / text pair
LastReturned ==
  LET n == Len(fm_created_files) IN
    IF fm_created_files[n].dir = "text"
      THEN {fm_created_files[n - 1], fm_created_files[n]}
      ELSE {fm_created_files[n]}

\* C28: after cleanup_session_files the session stays usable: every path
\* returned afterwards by create_audio_file_path or
\* create_translation_file_path lies in a directory that exists, so a second
\* run() in the same process can write its artifact files.
C28_SessionUsable ==
  fm_last_op = "create" => \A q \in LastReturned : q.dir \in fm_dirs

\* C29: cleanup_old_sessions, for every max_age_hours including 0, never
\* removes the directory of the calling manager's own live session nor any
\* file that session still tracks.
C29_SweepSparesOwnSession ==
  [][fm_last_op' = "sweep" =>
       /\ "session" \in fm_dirs => "session" \in fm_dirs'
       /\ (Tracked \cap fm_files) \subseteq fm_files']_vars

\* ----------------------------------------------------- claims, sessions

LiveRuns == {r \in 1..MaxRuns : us_runs[r].pc = "live"}

BoundaryPositions(text) == {i \in 1..Len(text) : text[i] \in special_characters}

KthBoundary(text, k) ==
  IF k = 0 THEN 0
  ELSE CHOOSE i \in BoundaryPositions(text) :
         Cardinality({j \in BoundaryPositions(text) : j <= i}) = k

\* a text without the whitespace before its first and after its last
\* non-whitespace character
Trimmed(s) ==
  LET solid == {i \in 1..Len(s) : ~IsSpace(s[i])} IN
    IF solid = {} THEN <<>>
    ELSE SubSeq(s, CHOOSE i \in solid : \A j \in solid : i <= j,
                   CHOOSE i \in solid : \A j \in solid : j <= i)

\* the units the claim describes: one per boundary character, then one for a
\* non-empty remainder
ExpectedUnits(text) ==
  LET nb == Cardinality(BoundaryPositions(text))
      rest == SubSeq(text, KthBoundary(text, nb) + 1, Len(text))
      units == [k \in 1..nb |->
                 Trimmed(SubSeq(text, KthBoundary(text, k - 1) + 1,
                                KthBoundary(text, k)))]
  IN IF rest # <<>> THEN Append(units, Trimmed(rest)) ELSE units

RunHasSplit == run_pc \in {"prepared", "talked", "done"}

\* C14: split_text_into_chunks returns, in order, one unit per boundary
\* character (the characters since the previous boundary up to and including
\* it, trimmed of surrounding whitespace) and then one unit for a non-empty
\* remainder; the empty text gives no unit and a non-empty text without
\* boundary character gives exactly one.
C14_UnitsPerBoundary ==
  RunHasSplit =>
    /\ run_chunks = ExpectedUnits(run_translated)
    /\ run_translated = <<>> => run_chunks = <<>>
    /\ (run_translated # <<>> /\ BoundaryPositions(run_translated) = {}) =>
         Len(run_chunks) = 1

\* "a. a" was split into "a." and "a"
C14_Witness ==
  /\ RunHasSplit
  /\ run_translated = <<"a", ".", " ", "a">>
  /\ run_chunks = << <<"a", ".">>, <<"a">> >>

\* the characters of a text that are not whitespace, in order
RECURSIVE Solid(_)
Solid(s) ==
  IF s = <<>> THEN <<>>
  ELSE IF IsSpace(Head(s)) THEN Solid(Tail(s))
       ELSE <<Head(s)>> \o Solid(Tail(s))

\* s is t with some whitespace characters left out
RECURSIVE LacksOnlySpace(_, _)
LacksOnlySpace(s, t) ==
  IF t = <<>> THEN s = <<>>
  ELSE \/ s # <<>> /\ Head(s) = Head(t) /\ LacksOnlySpace(Tail(s), Tail(t))
       \/ IsSpace(Head(t)) /\ LacksOnlySpace(s, Tail(t))

\* C15: the units of a text, concatenated in order, are the text with
\* whitespace left out at unit edges: every non-whitespace character is
\* there, none is added and none changes place.
C15_RoundTrip ==
  RunHasSplit =>
    /\ run_reconstructed = Join(run_chunks)
    /\ Solid(run_reconstructed) = Solid(run_translated)
    /\ LacksOnlySpace(run_reconstructed, run_translated)
    /\ run_reconstructed = Join(ExpectedUnits(run_translated))

\* "a", newline, " a" was split at the newline and joined to "aa"
C15_Witness ==
  /\ RunHasSplit
  /\ run_translated = <<"a", "\n", " ", "a">>
  /\ run_chunks = << <<"a">>, <<"a">> >>
  /\ run_reconstructed = <<"a", "a">>

\* C30: split_text_into_chunks never returns an empty unit: for every input
\* text every unit contains at least one non-whitespace character, also for
\* consecutive boundary characters, whitespace-only lines and a
\* whitespace-only trailing remainder.
C30_NoEmptyUnit ==
  RunHasSplit => \A k \in 1..Len(run_chunks) : Solid(run_chunks[k]) # <<>>

\* ------------------------------------------------ claims, translation

\* C16: translate_text with a target language never hands the provider a
\* chunk longer than max_translate_chars, and a text longer than that is
\* handed over in more than one call.
C16_ChunksWithinBudget ==
  /\ \A k \in 1..Len(tr_calls) : Len(tr_calls[k]) <= max_translate_chars
  /\ (tr_pc = "done" /\ tr_target /\ Len(tr_text) > max_translate_chars) =>
       Len(tr_calls) > 1

\* C17: when the provider raises for a chunk, the original chunk stands at
\* its position in the result, every other chunk is still handed to the
\* provider in order and its answer is used, and translate_text returns the
\* joined pieces.
C17_FallbackOnRaise ==
  tr_target =>
    /\ Len(tr_calls) = Len(tr_translated_chunks)
    /\ Len(tr_outcomes) = Len(tr_calls)
    /\ \A k \in 1..Len(tr_calls) :
         /\ tr_calls[k] = tr_chunks[k]
         /\ tr_outcomes[k] = "raise" => tr_translated_chunks[k] = tr_chunks[k]
         /\ tr_outcomes[k] = "ok" =>
              tr_translated_chunks[k] = Translated(tr_chunks[k])
    /\ tr_pc = "done" =>
         /\ tr_calls = tr_chunks
         /\ tr_result = Join(tr_translated_chunks)

\* the provider raised for the first of two chunks and translated the
\* second
C17_Witness ==
  /\ tr_pc = "done"
  /\ tr_target
  /\ tr_outcomes = <<"raise", "ok">>
  /\ tr_chunks = << <<"a", "\n">>, <<"a">> >>
  /\ tr_result = <<"a", "\n", "b">>

\* ------------------------------------------------ claims, playback

HasThreeFields(line) == Len(line) = 3

\* the lines of the sidecar file that split into three fields, in order
ThreeFieldLines == SelectSeq(pl_lines, HasThreeFields)

AllNumeric ==
  \A k \in 1..Len(ThreeFieldLines) :
    IsNumber(ThreeFieldLines[k][2]) /\ IsNumber(ThreeFieldLines[k][3])

\* C18 as stated: load_word_boundaries returns one record per line of three
\* fields, in file order, whatever else the file holds.
C18_ThreeFieldRecords ==
  pl_pc \in {"playing", "done"} =>
    /\ ~pl_load_raised
    /\ Len(pl_loaded) = Len(ThreeFieldLines)
    /\ \A k \in 1..Len(pl_loaded) : pl_loaded[k].word = ThreeFieldLines[k][1]

\* C18, amended: when the second and third field of every three-field line
\* are numbers, load_word_boundaries returns exactly the records of the
\* three-field lines in file order, and a line with any other number of
\* fields is passed over without ending the parse; when some three-field
\* line holds a field that is no number, load_word_boundaries raises and
\* returns nothing.
C18_NumericThreeFieldRecords ==
  pl_pc \in {"playing", "done"} =>
    IF AllNumeric
      THEN /\ ~pl_load_raised
           /\ Len(pl_loaded) = Len(ThreeFieldLines)
           /\ \A k \in 1..Len(pl_loaded) :
                pl_loaded[k] = [word |-> ThreeFieldLines[k][1],
                                start |-> FloatOf(ThreeFieldLines[k][2]),
                                duration |-> FloatOf(ThreeFieldLines[k][3])]
      ELSE /\ pl_load_raised
           /\ pl_error
           /\ pl_loaded = <<>>

\* the two-field line was passed over and the record after it was loaded
C18_Witness ==
  /\ pl_pc = "playing"
  /\ pl_lines = << <<"w", "1">>, <<"w", "1", "2">> >>
  /\ pl_loaded = << [word |-> "w", start |-> 1, duration |-> 2] >>

\* how often the boundary at position k was printed
ShownCount(k) == Cardinality({j \in 1..Len(pl_shown) : pl_shown[j] = k})

InWindow(entry, elapsed_time) ==
  entry.start <= elapsed_time /\ elapsed_time < entry.start + entry.duration

\* the polls have run past the end of every boundary window
PastEveryWindow ==
  \A k \in 1..Len(pl_loaded) :
    pl_elapsed >= pl_loaded[k].start + pl_loaded[k].duration

\* C19 as stated: once the polled elapsed times have run past the end of
\* every window, each boundary's word has been revealed exactly once.
C19_RevealedExactlyOnce ==
  (pl_pc \in {"playing", "done"} /\ ~pl_error /\ PastEveryWindow) =>
    \A k \in 1..Len(pl_loaded) : ShownCount(k) = 1

\* ------------------------------------------------ claims, run()

\* C20: run() called with is_file=True for a file that does not exist does
\* not raise: it hands the fallback text to talk() and then cleans up.
C20_MissingFileFallback ==
  (run_mode = "file" /\ ~run_exists /\ run_pc \in {"raised", "done"}) =>
    /\ ~run_raised
    /\ \E k \in 1..Len(run_spoken) : run_spoken[k] = FallbackText
    /\ run_cleaned

\* ------------------------------------------------ claims, voice setting

\* the voice a call is to be synthesized with: the one it names, else what
\* get_voice makes of the configured default
OwnVoice(r) ==
  IF vc_req[r].voice # "" THEN vc_req[r].voice ELSE get_voice(vc_configured)

\* C23: every unit is synthesized with the voice named by its own request (or
\* the configured default when its request names none), whatever voice
\* overrides other requests apply and in whatever interleaving.
C23_OwnVoice ==
  \A k \in 1..Len(vc_used) : vc_used[k].voice = OwnVoice(vc_used[k].req)

\* ------------------------------------------------ claims, run() and talk()

\* C27: in run(), the sequence of units that talk() synthesizes equals
\* split_text_into_chunks applied to the (translated) input text: joining the
\* chunks with the empty string and splitting the result again neither
\* merges, drops nor changes any unit.
C27_ResplitKeepsUnits ==
  (run_pc \in {"talked", "done"} /\ run_spoken # <<>>) =>
    /\ run_chunks = split_text_into_chunks(run_translated)
    /\ run_talk_chunks = run_chunks

====
